---- MODULE Spec2Model ----
(***************************************************************************)
(* Model of scraps.py: the seafile share scraper.                          *)
(*                                                                         *)
(*   BaseDownload._get        the retrying GET                             *)
(*   BaseDownload.download    existence check, get(), io_write             *)
(*   Download.get             plain file retrieval                         *)
(*   ZipDownload.get          initiate -> poll -> fetch -> cancel          *)
(*   FolderDownload.get       folder listing                               *)
(*   Scraper.get              the frontier loop over batches               *)
(*                                                                         *)
(* One action is one run of a coroutine from one suspension point to the   *)
(* next one: everything the code does synchronously after a network reply  *)
(* arrives (including the finally block of get_zip_token, whose cancel_zip *)
(* uses a blocking requests.post) belongs to the action of that reply.     *)
(***************************************************************************)
EXTENDS Integers, Sequences, FiniteSets, TLC

\* ------------------------------------------------------------------------
\* Bounds
\* ------------------------------------------------------------------------
\* largest value of the constructor argument `tries` that is explored
MaxTries == 1
\* largest value of --chunk-size that is explored
MaxChunk == 2

\* ------------------------------------------------------------------------
\* The remote share (what the server would answer)
\* ------------------------------------------------------------------------
None == "None"

File(p)   == [type |-> "file", path |-> p]
Folder(p) == [type |-> "folder", path |-> p]

Root == Folder("/")

Paths == {"/", "/a.txt", "/sub", "/sub/c1", "/sub/c2"}

\* files listed on the page of a folder (tr.file-item rows)
PageFiles(p) ==
    CASE p = "/"    -> <<File("/a.txt")>>
      [] p = "/sub" -> <<File("/sub/c1")>>
      [] OTHER      -> <<>>

\* folders listed on the page of a folder (the other rows)
PageFolders(p) ==
    CASE p = "/"    -> <<Folder("/sub")>>
      [] p = "/sub" -> <<Folder("/sub/c2")>>
      [] OTHER      -> <<>>

get_files(p) == PageFiles(p)

get_folders(p) == PageFolders(p)

\* body of a successful file download / of a finished archive
FileBytes(p) ==
    CASE p = "/"       -> "bytes:/"
      [] p = "/a.txt"  -> "bytes:/a.txt"
      [] p = "/sub"    -> "bytes:/sub"
      [] p = "/sub/c1" -> "bytes:/sub/c1"
      [] p = "/sub/c2" -> "bytes:/sub/c2"

\* the token the server issues for an export of p
ZipToken(p) ==
    CASE p = "/"       -> "token:/"
      [] p = "/a.txt"  -> "token:/a.txt"
      [] p = "/sub"    -> "token:/sub"
      [] p = "/sub/c1" -> "token:/sub/c1"
      [] p = "/sub/c2" -> "token:/sub/c2"

\* the archive the server serves for a token
ZipBytes(tok) ==
    CASE tok = "token:/"       -> "archive:/"
      [] tok = "token:/a.txt"  -> "archive:/a.txt"
      [] tok = "token:/sub"    -> "archive:/sub"
      [] tok = "token:/sub/c1" -> "archive:/sub/c1"
      [] tok = "token:/sub/c2" -> "archive:/sub/c2"
      [] OTHER                 -> "archive:?"

EXT(type) == IF type = "file" THEN "" ELSE ".zip"

target_path(type, p) == <<p, EXT(type)>>

Targets == {target_path(ty, p) : ty \in {"file", "folder"}, p \in Paths}

\* files that may be present in the output directory before the run
Preexisting == {target_path("file", "/a.txt"), target_path("folder", "/sub")}

\* ------------------------------------------------------------------------
\* BaseDownload._get
\* ------------------------------------------------------------------------
\* what one requests.get can do: raise Timeout, raise ConnectionError, or
\* return a response with a status.  (MissingSchema cannot be raised: every
\* uri is built from a constant https:// template.)
Outcomes == {"Timeout", "ConnectionError", "s200", "s400", "s500"}

Raising == {"Timeout", "ConnectionError"}

ok(response) == response = "s200"

\* state of one call of _get:
\*   tries     the local counter            response  the local `response`
\*   attempts  requests issued so far       last      outcome of the last one
\*   allstat   every attempt so far received a non-success status
\*   st        "run" | "ret" | "raise"      ret       returned value / exception
NewGet == [tries |-> -1, response |-> "unbound", attempts |-> 0, last |-> "-",
           allstat |-> TRUE, st |-> "run", ret |-> "-"]

LoopGuardLE(t, n) == t <= n

\* while tries < self.tries
LoopGuard(t, n) == t < n

\* One iteration of the while loop of _get with outcome o of requests.get,
\* followed by the loop test; falling out of the loop returns None.
_get(g, o, okay_fail, n) ==
    LET t1   == g.tries + 1
        resp == IF o \in Raising THEN g.response ELSE o
        b    == [g EXCEPT !.tries = t1, !.response = resp,
                          !.attempts = @ + 1, !.last = o,
                          !.allstat = @ /\ o \in {"s400", "s500"}]
    IN  IF resp = "unbound"
          THEN [b EXCEPT !.st = "raise", !.ret = "UnboundLocalError"]
        ELSE IF ~ok(resp)
          THEN IF resp \in okay_fail
                 THEN [b EXCEPT !.st = "ret", !.ret = resp]
               ELSE IF LoopGuard(t1, n)
                 THEN b
               ELSE [b EXCEPT !.st = "ret", !.ret = None]
        ELSE [b EXCEPT !.st = "ret", !.ret = resp]


\* ------------------------------------------------------------------------
\* State
\* ------------------------------------------------------------------------
VARIABLES
    tries,        \* self.tries of every download object
    chunking,     \* self.chunking of the Scraper
    force,        \* self.force
    targets,      \* Scraper.get: the list `targets`
    current,      \* Scraper.get: the list `current`
    dls,          \* the download() coroutines of the batch, one per entry
    new_targets,  \* the FolderDownload.get() coroutines of the batch
    pc,           \* position of Scraper.get
    files,        \* output directory: target path -> content
    writes,       \* number of io_write calls per target path
    history,      \* per path: times dispatched (line 294-298), times listed
                  \* (line 306-309) and its entry of `runs` once gathered
    initial       \* the target paths present when the run started

vars == <<tries, chunking, force, targets, current, dls, new_targets, pc,
          files, writes, history, initial>>

\* a download() coroutine of the batch
\*   pc            "download" | "get" | "initiate_zip" | "check_zip_status"
\*                 | "get_zip" | "io_write" | "done"
\*   g             the _get call it is in
\*   zip_token     self.zip_token
\*   requests_status  token_response['requests_status'] ("-" before)
\*   posts         tokens of the cancel-zip POSTs issued, in order
\*   polls         last progress reply seen: "-" | "partial" | "complete"
\*   cancel        what requests.post did in cancel_zip ("-": not called)
\*   content       what get() returned
\*   run           entry of `runs`: "-" pending, None, or the exception
NewDl(e) == [type |-> e.type, path |-> e.path, pc |-> "download", g |-> NewGet,
             zip_token |-> None, requests_status |-> "-", posts |-> <<>>,
             polls |-> "-", cancel |-> "-", content |-> None, run |-> "-"]

\* a FolderDownload.get() coroutine
NewListing(e) == [path |-> e.path, g |-> NewGet, run |-> "-", listing |-> <<>>]

Raise(d, e) == [d EXCEPT !.pc = "done", !.run = e]

\* ------------------------------------------------------------------------
\* ZipDownload
\* ------------------------------------------------------------------------
attr_check_off(v) == FALSE

\* attr_check: the wrapped method raises ValueError when the attribute is None
attr_check(v) == v = None

\* the two things requests.post can do in cancel_zip
PostOutcomes == {"sent", "ConnectionError"}

\* shapes of a 400 reply of the zip-task endpoint: with or without a
\* (null) zip_token member next to error_msg
RejectPayloads == {"no_zip_token", "null_zip_token"}

FinallyOnlyOnSuccess(d, pending, po) ==
    IF pending # None THEN Raise(d, pending)
    ELSE LET p == [d EXCEPT !.posts = Append(@, d.zip_token), !.cancel = po]
         IN  IF po = "ConnectionError" THEN Raise(p, "ConnectionError")
             ELSE [p EXCEPT !.pc = "io_write"]

FinallySwallowsCancelError(d, pending, po) ==
    IF attr_check(d.zip_token)
      THEN Raise(d, "ValueError: requires the attribute 'zip_token'")
    ELSE LET p == [d EXCEPT !.posts = Append(@, d.zip_token), !.cancel = po]
         IN  IF pending # None THEN Raise(p, pending)
             ELSE [p EXCEPT !.pc = "io_write"]

\* get_zip_token's finally block followed by the rest of get()/download():
\* cancel_zip runs with exception `pending` (None: normal exit) in flight.
Finally(d, pending, po) ==
    IF attr_check(d.zip_token)
      THEN Raise(d, "ValueError: requires the attribute 'zip_token'")
    ELSE LET p == [d EXCEPT !.posts = Append(@, d.zip_token), !.cancel = po]
         IN  IF po = "ConnectionError" THEN Raise(p, "ConnectionError")
             ELSE IF pending # None THEN Raise(p, pending)
             ELSE [p EXCEPT !.pc = "io_write"]

\* the body of `async with` in ZipDownload.get up to its first await, for a
\* token_response with requests_status 400 and payload shape pl
Rejected(d, pl, po) ==
    LET r == [d EXCEPT !.requests_status = "s400"]
    IN  IF pl = "no_zip_token"
          THEN Finally(r, "KeyError: 'zip_token'", po)
        ELSE Finally([r EXCEPT !.zip_token = None],
                     "ValueError: cannot be zipped because error_msg", po)

\* initiate_zip and, when it returns, the entry into the with-body
initiate_zip_step(d, o, pl, po, n) ==
    LET g == _get(d.g, o, {"s400"}, n)
        e == [d EXCEPT !.g = g]
    IN  CASE g.st = "run"   -> e
          [] g.st = "raise" -> Raise(e, g.ret)
          [] g.ret = None   -> Raise(e, "AttributeError")
          [] g.ret = "s400" -> Rejected(e, pl, po)
          [] OTHER          -> [e EXCEPT !.zip_token = ZipToken(d.path),
                                         !.requests_status = "s200",
                                         !.pc = "check_zip_status",
                                         !.g = NewGet]

check_zip_status_step_no_compare(d, o, pr, po, n) ==
    LET g == _get(d.g, o, {}, n)
        e == [d EXCEPT !.g = g]
    IN  CASE g.st = "run"   -> e
          [] g.st = "raise" -> Finally(e, g.ret, po)
          [] g.ret = None   -> Finally(e, "AttributeError", po)
          [] OTHER          -> [e EXCEPT !.polls = pr, !.g = NewGet,
                                         !.pc = "get_zip"]

\* one attempt of check_zip_status inside the polling loop; pr is the
\* progress the server reports
check_zip_status_step(d, o, pr, po, n) ==
    LET g == _get(d.g, o, {}, n)
        e == [d EXCEPT !.g = g]
    IN  CASE g.st = "run"   -> e
          [] g.st = "raise" -> Finally(e, g.ret, po)
          [] g.ret = None   -> Finally(e, "AttributeError", po)
          [] pr = "partial" -> [e EXCEPT !.polls = pr, !.g = NewGet]
          [] OTHER          -> [e EXCEPT !.polls = pr, !.g = NewGet,
                                         !.pc = "get_zip"]

get_zip_step_no_content(d, o, po, n) ==
    LET g == _get(d.g, o, {}, n)
        e == [d EXCEPT !.g = g]
    IN  CASE g.st = "run"   -> e
          [] g.st = "raise" -> Finally(e, g.ret, po)
          [] g.ret = None   -> Finally(e, "AttributeError", po)
          [] OTHER          -> Finally(e, None, po)

\* one attempt of get_zip and the exit from the with-block
get_zip_step(d, o, po, n) ==
    LET g == _get(d.g, o, {}, n)
        e == [d EXCEPT !.g = g]
    IN  CASE g.st = "run"   -> e
          [] g.st = "raise" -> Finally(e, g.ret, po)
          [] g.ret = None   -> Finally(e, "AttributeError", po)
          [] OTHER          -> Finally([e EXCEPT !.content = ZipBytes(d.zip_token)],
                                       None, po)

\* ------------------------------------------------------------------------
\* Download and FolderDownload
\* ------------------------------------------------------------------------
Download_get_step(d, o, n) ==
    LET g == _get(d.g, o, {}, n)
        e == [d EXCEPT !.g = g]
    IN  CASE g.st = "run"   -> e
          [] g.st = "raise" -> Raise(e, g.ret)
          [] g.ret = None   -> Raise(e, "AttributeError")
          [] OTHER          -> [e EXCEPT !.content = FileBytes(d.path),
                                         !.pc = "io_write"]

FolderDownload_get_files_only(l, o, n) ==
    LET g == _get(l.g, o, {}, n)
        e == [l EXCEPT !.g = g]
    IN  CASE g.st = "run"   -> e
          [] g.st = "raise" -> [e EXCEPT !.run = g.ret]
          [] g.ret = None   -> [e EXCEPT !.run = "AttributeError"]
          [] OTHER          -> [e EXCEPT !.run = "list",
                                !.listing = get_files(l.path)]

\* one request of FolderDownload.get and, when _get returns, the parsing
FolderDownload_get_step(l, o, n) ==
    LET g == _get(l.g, o, {}, n)
        e == [l EXCEPT !.g = g]
    IN  CASE g.st = "run"   -> e
          [] g.st = "raise" -> [e EXCEPT !.run = g.ret]
          [] g.ret = None   -> [e EXCEPT !.run = "AttributeError"]
          [] OTHER          -> [e EXCEPT !.run = "list",
                                !.listing = get_files(l.path) \o get_folders(l.path)]


\* ------------------------------------------------------------------------
\* Scraper.get and the coroutines it gathers
\* ------------------------------------------------------------------------
Min(a, b) == IF a < b THEN a ELSE b

Range(s) == {s[i] : i \in DOMAIN s}

exists_never(t) == FALSE

\* os.path.exists(target_path)
exists(t) == files[t] # "absent"

\* the output directories a run is started on: with force set, where what
\* is there only decides what gets overwritten, the empty and the full one
InitialDirs(f) == IF f THEN {{}, Preexisting} ELSE SUBSET Preexisting

Init ==
    /\ tries \in 0..MaxTries
    /\ chunking \in 0..MaxChunk
    /\ force \in BOOLEAN
    /\ targets = <<Root>>
    /\ current = <<>>
    /\ dls = <<>>
    /\ new_targets = <<>>
    /\ pc = "while"
    /\ \E pre \in InitialDirs(force) :
         /\ files = [t \in Targets |-> IF t \in pre THEN "old" ELSE "absent"]
         /\ initial = pre
    /\ writes = [t \in Targets |-> 0]
    /\ history = [p \in Paths |-> [dispatched |-> 0, listed |-> 0, run |-> "-"]]

PickedAll(ts, c) == Len(ts)

PickedOneLess(ts, c) == Min(IF c - 1 < 0 THEN 0 ELSE c - 1, Len(ts))

\* range(self.chunking) pops from the end of targets until it is empty
Picked(ts, c) == Min(IF c < 0 THEN 0 ELSE c, Len(ts))

\* lines 286-299: the loop test, the picking of `current`, the creation of
\* the download objects and of their coroutines, up to `await gather`
PickBatch ==
    /\ pc = "while"
    /\ targets # <<>>
    /\ LET k == Picked(targets, chunking)
           cur == [i \in 1..k |-> targets[Len(targets) + 1 - i]]
       IN  /\ current' = cur
           /\ targets' = SubSeq(targets, 1, Len(targets) - k)
           /\ dls' = [i \in 1..k |-> NewDl(cur[i])]
           /\ history' = [p \in Paths |->
                 IF \E i \in 1..k : cur[i].path = p
                   THEN [history[p] EXCEPT !.dispatched = @ + 1]
                   ELSE history[p]]
    /\ new_targets' = <<>>
    /\ pc' = "gather"
    /\ UNCHANGED <<initial, tries, chunking, force, files, writes>>

\* line 286, targets empty: the loop is left and get() returns
Return ==
    /\ pc = "while"
    /\ targets = <<>>
    /\ pc' = "returned"
    /\ UNCHANGED <<initial, history, tries, chunking, force, targets, current, dls, new_targets,
                   files, writes>>

\* BaseDownload.download up to the first await of get()
download(i) ==
    /\ pc = "gather"
    /\ i \in DOMAIN dls
    /\ dls[i].pc = "download"
    /\ LET d == dls[i]
           t == target_path(d.type, d.path)
       IN  dls' = [dls EXCEPT ![i] =
                     IF ~exists(t) \/ force
                       THEN [d EXCEPT !.pc = IF d.type = "file" THEN "get"
                                             ELSE "initiate_zip"]
                     ELSE [d EXCEPT !.pc = "done", !.run = None]]
    /\ UNCHANGED <<initial, history, tries, chunking, force, targets, current, new_targets, pc,
                   files, writes>>

\* one request of Download.get
Download_get(i) ==
    /\ pc = "gather"
    /\ i \in DOMAIN dls
    /\ dls[i].pc = "get"
    /\ \E o \in Outcomes :
         dls' = [dls EXCEPT ![i] = Download_get_step(dls[i], o, tries)]
    /\ UNCHANGED <<initial, history, tries, chunking, force, targets, current, new_targets, pc,
                   files, writes>>

\* one request of ZipDownload.initiate_zip
initiate_zip(i) ==
    /\ pc = "gather"
    /\ i \in DOMAIN dls
    /\ dls[i].pc = "initiate_zip"
    /\ \E o \in Outcomes, pl \in RejectPayloads, po \in PostOutcomes :
         dls' = [dls EXCEPT ![i] = initiate_zip_step(dls[i], o, pl, po, tries)]
    /\ UNCHANGED <<initial, history, tries, chunking, force, targets, current, new_targets, pc,
                   files, writes>>

\* one request of ZipDownload.check_zip_status
check_zip_status(i) ==
    /\ pc = "gather"
    /\ i \in DOMAIN dls
    /\ dls[i].pc = "check_zip_status"
    /\ \E o \in Outcomes, pr \in {"partial", "complete"}, po \in PostOutcomes :
         dls' = [dls EXCEPT ![i] = check_zip_status_step(dls[i], o, pr, po, tries)]
    /\ UNCHANGED <<initial, history, tries, chunking, force, targets, current, new_targets, pc,
                   files, writes>>

\* one request of ZipDownload.get_zip
get_zip(i) ==
    /\ pc = "gather"
    /\ i \in DOMAIN dls
    /\ dls[i].pc = "get_zip"
    /\ \E o \in Outcomes, po \in PostOutcomes :
         dls' = [dls EXCEPT ![i] = get_zip_step(dls[i], o, po, tries)]
    /\ UNCHANGED <<initial, history, tries, chunking, force, targets, current, new_targets, pc,
                   files, writes>>

\* io_write in the executor, and the return of download()
io_write(i) ==
    /\ pc = "gather"
    /\ i \in DOMAIN dls
    /\ dls[i].pc = "io_write"
    /\ LET t == target_path(dls[i].type, dls[i].path)
       IN  /\ files' = [files EXCEPT ![t] = dls[i].content]
           /\ writes' = [writes EXCEPT ![t] = @ + 1]
    /\ dls' = [dls EXCEPT ![i] = [@ EXCEPT !.pc = "done", !.run = None]]
    /\ UNCHANGED <<initial, history, tries, chunking, force, targets, current, new_targets, pc>>

GatheredOrFailed(ds) ==
    \/ \A i \in DOMAIN ds : ds[i].run # "-"
    \/ \E i \in DOMAIN ds : ds[i].run \notin {"-", None}

\* asyncio.gather(..., return_exceptions=True) has a result
Gathered(ds) == \A i \in DOMAIN ds : ds[i].run # "-"

\* fails[i]
failed(d) == d.run \notin {"-", None}

RetargetAnyKind(cur, ds) ==
    SelectSeq(cur, LAMBDA e : \E i \in DOMAIN ds : cur[i] = e /\ failed(ds[i]))

\* retarget filtered by i['type'] == 'folder' (the entries of a batch are
\* distinct, so an entry stands for its index)
Retarget(cur, ds) ==
    SelectSeq(cur, LAMBDA e : /\ \E i \in DOMAIN ds : cur[i] = e /\ failed(ds[i])
                              /\ e.type = "folder")

\* lines 299-309: gather returns, the failures are collected and the
\* listing coroutines are created, up to the second `await gather`
Descend ==
    /\ pc = "gather"
    /\ Gathered(dls)
    /\ LET r == Retarget(current, dls)
       IN  /\ new_targets' = [j \in 1..Len(r) |-> NewListing(r[j])]
           /\ history' = [p \in Paths |->
                 [history[p] EXCEPT
                    !.listed = IF \E j \in 1..Len(r) : r[j].path = p
                                 THEN @ + 1 ELSE @,
                    !.run = IF \E i \in DOMAIN dls : current[i].path = p
                              THEN (IF failed(dls[CHOOSE i \in DOMAIN dls :
                                                    current[i].path = p])
                                      THEN "failed" ELSE "ok")
                              ELSE @]]
    /\ pc' = "gather_listings"
    /\ UNCHANGED <<initial, tries, chunking, force, targets, current, dls, files, writes>>

\* one request of FolderDownload.get
FolderDownload_get(j) ==
    /\ pc = "gather_listings"
    /\ j \in DOMAIN new_targets
    /\ new_targets[j].run = "-"
    /\ \E o \in Outcomes :
         new_targets' = [new_targets EXCEPT ![j] =
                           FolderDownload_get_step(new_targets[j], o, tries)]
    /\ UNCHANGED <<initial, history, tries, chunking, force, targets, current, dls, pc, files,
                   writes>>

RECURSIVE Concat(_)
Concat(ls) == IF ls = <<>> THEN <<>> ELSE Head(ls).listing \o Concat(Tail(ls))

ExtendRequeue ==
    /\ pc = "gather_listings"
    /\ Gathered(new_targets)
    /\ IF \E j \in DOMAIN new_targets : new_targets[j].run # "list"
         THEN pc' = "TypeError" /\ targets' = targets
         ELSE /\ pc' = "while"
              /\ targets' = targets \o Concat(new_targets)
                               \o RetargetAnyKind(current, dls)
    /\ UNCHANGED <<initial, history, tries, chunking, force, current, dls,
                   new_targets, files, writes>>

\* lines 309-310: the second gather returns; sum(new_targets, start=[])
\* raises TypeError when an element is an exception, which ends the run
Extend ==
    /\ pc = "gather_listings"
    /\ Gathered(new_targets)
    /\ IF \E j \in DOMAIN new_targets : new_targets[j].run # "list"
         THEN pc' = "TypeError" /\ targets' = targets
         ELSE pc' = "while" /\ targets' = targets \o Concat(new_targets)
    /\ UNCHANGED <<initial, history, tries, chunking, force, current, dls, new_targets, files,
                   writes>>

Next ==
    \/ PickBatch
    \/ Return
    \/ \E i \in 1..MaxChunk : download(i)
    \/ \E i \in 1..MaxChunk : Download_get(i)
    \/ \E i \in 1..MaxChunk : initiate_zip(i)
    \/ \E i \in 1..MaxChunk : check_zip_status(i)
    \/ \E i \in 1..MaxChunk : get_zip(i)
    \/ \E i \in 1..MaxChunk : io_write(i)
    \/ Descend
    \/ \E j \in 1..MaxChunk : FolderDownload_get(j)
    \/ Extend

Spec == Init /\ [][Next]_vars

\* Runs without --force.  (With force set download() takes, for any output
\* directory, the steps it takes here for an empty one.)
LiveInit == Init /\ ~force

\* The event loop always resumes a coroutine that can go on, and every
\* request, sleep and executor call returns.
LiveSpec == LiveInit /\ [][Next]_vars /\ WF_vars(Next)


\* ------------------------------------------------------------------------
\* Properties
\* ------------------------------------------------------------------------
\* every _get call of the batch, running or finished
Gets == {dls[i].g : i \in DOMAIN dls} \cup {new_targets[j].g : j \in DOMAIN new_targets}

\* every coroutine of ds has a result
Finished(ds) == \A i \in DOMAIN ds : ds[i].run # "-"

\* the with-block of ZipDownload.get has been left
Exited(d) == d.pc \in {"io_write", "done"}

\* the children the server lists for a folder
Children(p) == PageFiles(p) \o PageFolders(p)

NotExportable == "ValueError: cannot be zipped because error_msg"

\* C1: an export whose initiation succeeded (a token was issued) has issued
\* no cancel-zip POST while it is polling or fetching, and exactly one, for
\* its own token, once it has left the with-block, whether it left with the
\* archive or with an exception.
C1_TokenLifecycle ==
    \A i \in DOMAIN dls :
        dls[i].requests_status = "s200" =>
            /\ dls[i].zip_token = ZipToken(dls[i].path)
            /\ IF Exited(dls[i])
                 THEN dls[i].posts = <<dls[i].zip_token>>
                 ELSE dls[i].posts = <<>>

C1_Witness ==
    \E i \in DOMAIN dls :
        /\ dls[i].requests_status = "s200"
        /\ dls[i].pc = "done"
        /\ dls[i].run = "AttributeError"
        /\ dls[i].posts = <<ZipToken(dls[i].path)>>

\* C2: an export whose initiation was answered with status 400 never issues
\* a cancel-zip POST.
C2_RejectionNoRelease ==
    \A i \in DOMAIN dls :
        dls[i].requests_status = "s400" => dls[i].posts = <<>>

C2_Witness ==
    \E i \in DOMAIN dls :
        /\ dls[i].requests_status = "s400"
        /\ dls[i].pc = "done"
        /\ failed(dls[i])

\* C3: an export rejected with status 400 fails with the descriptive
\* "cannot be zipped because <error_msg>" error.
C3_RejectionSurfacesNotExportable ==
    \A i \in DOMAIN dls :
        (dls[i].requests_status = "s400" /\ dls[i].pc = "done")
            => dls[i].run = NotExportable

\* C4: no _get call issues more than self.tries + 1 requests.
C4_RetryBound == \A g \in Gets : g.attempts <= tries + 1

C4_Witness ==
    \E g \in Gets : /\ tries >= 1
                    /\ g.attempts = tries + 1
                    /\ g.st = "ret"
                    /\ g.last \in Raising

\* C5: a _get call whose last request raised Timeout or ConnectionError and
\* that has issued fewer than self.tries + 1 requests is still running (it
\* goes on to another request).
C5_RetryAfterTimeout ==
    \A g \in Gets :
        (g.last \in Raising /\ g.attempts < tries + 1) => g.st = "run"

\* the status codes the caller of the _get call of d accepts (okay_fail)
okay_fail(d) ==
    IF d.type = "folder" /\ d.zip_token = None THEN {"s400"} ELSE {}

\* C6: a _get call all of whose self.tries + 1 requests received a
\* non-success status outside okay_fail returns the last response.
C6_ExhaustedReturnsLastResponse ==
    /\ \A i \in DOMAIN dls :
          LET g == dls[i].g
          IN  (/\ g.allstat
               /\ g.attempts = tries + 1
               /\ g.st # "run"
               /\ g.response \notin okay_fail(dls[i]))
                  => (g.st = "ret" /\ g.ret = g.response)
    /\ \A j \in DOMAIN new_targets :
          LET g == new_targets[j].g
          IN  (g.allstat /\ g.attempts = tries + 1 /\ g.st # "run")
                  => (g.st = "ret" /\ g.ret = g.response)

\* C7: while the listings of a batch are in flight every download of the
\* batch has finished, and a new batch is drawn only when every download
\* and every listing of the previous one has finished; a step in which one
\* download fails leaves the other downloads of the batch as they were.
C7_BatchBarrier ==
    /\ [](pc = "gather_listings" => Finished(dls))
    /\ [][(\E i \in DOMAIN dls' :
               /\ dls'[i].pc = "download"
               /\ (i \in DOMAIN dls => dls[i].pc # "download"))
             => (Finished(dls) /\ Finished(new_targets))]_vars
    /\ [][\A i \in DOMAIN dls :
            (i \in DOMAIN dls' /\ ~failed(dls[i]) /\ failed(dls'[i]))
               => \A j \in DOMAIN dls : j # i => dls'[j] = dls[j]]_vars

C7_Witness ==
    /\ pc = "gather_listings"
    /\ Len(dls) = 2
    /\ \E i \in DOMAIN dls : failed(dls[i])
    /\ \E i \in DOMAIN dls : dls[i].run = None /\ writes[target_path(dls[i].type, dls[i].path)] = 1
    /\ \E j \in DOMAIN new_targets : new_targets[j].g.attempts > 0

\* C8: when the listings of a batch have finished, the run goes on with the
\* loop, the children of the listings that succeeded appended to targets
\* and the entries whose listing failed dropped.
C8_FailureContainment ==
    [][(pc = "gather_listings" /\ pc' # pc)
          => (pc' = "while" /\ targets' = targets \o Concat(new_targets))]_vars

\* C9 as stated: every failed entry of the batch, file or folder, is listed.
C9_EveryFailedEntryListed ==
    pc = "gather_listings" =>
        \A i \in DOMAIN dls :
            failed(dls[i]) => \E j \in DOMAIN new_targets :
                                 new_targets[j].path = current[i].path

FailedFolders(cur, ds) ==
    {cur[i].path : i \in {k \in DOMAIN ds : failed(ds[k]) /\ cur[k].type = "folder"}}

\* C9 amended: exactly the failed folder entries of the batch are listed,
\* one listing each, and no failed file entry is; when the listings have
\* finished, either one of them failed and the run ends with targets as it
\* was, or every child they returned is appended to targets.
C9_FailedFoldersListed ==
    /\ [](pc = "gather_listings" =>
            /\ {new_targets[j].path : j \in DOMAIN new_targets}
                  = FailedFolders(current, dls)
            /\ Len(new_targets) = Cardinality(FailedFolders(current, dls)))
    /\ [][(pc = "gather_listings" /\ pc' # pc) =>
            IF \A j \in DOMAIN new_targets : new_targets[j].run = "list"
              THEN /\ pc' = "while"
                   /\ Len(targets') = Len(targets) + Len(Concat(new_targets))
                   /\ \A j \in DOMAIN new_targets :
                        \A k \in 1..Len(Children(new_targets[j].path)) :
                           \E m \in Len(targets) + 1..Len(targets') :
                              targets'[m] = Children(new_targets[j].path)[k]
              ELSE pc' = "TypeError" /\ targets' = targets]_vars

C9_Witness ==
    /\ pc = "while"
    /\ Len(dls) = 2
    /\ \A i \in DOMAIN dls : failed(dls[i])
    /\ \E i \in DOMAIN dls : dls[i].type = "file"
    /\ Len(new_targets) = 1
    /\ new_targets[1].run = "list"
    /\ targets = Children(new_targets[1].path)
    /\ targets # <<>>

\* C10: when a batch of one folder entry whose export was rejected (400)
\* has been processed, targets is what was left in it when the batch was
\* drawn followed by the children listed for that folder; the folder itself
\* is not in it.
C10_DescentProducesChildren ==
    [][(/\ pc = "gather_listings"
        /\ pc' = "while"
        /\ Len(current) = 1
        /\ current[1].type = "folder"
        /\ dls[1].requests_status = "s400")
          => /\ targets' = targets \o Children(current[1].path)
             /\ current[1] \notin Range(targets')]_vars

C10_Witness ==
    /\ pc = "while"
    /\ Len(current) = 1
    /\ current[1] = Folder("/sub")
    /\ dls[1].requests_status = "s400"
    /\ targets = <<File("/a.txt"), File("/sub/c1"), Folder("/sub/c2")>>

\* the target of a download coroutine
TargetOf(d) == <<d.path, IF d.type = "file" THEN "" ELSE ".zip">>

\* C11: an entry of the batch whose target file was there before the run and
\* has not been written, with force off, issues no GET and no cancel POST,
\* never leaves download() for get(), leaves the file as it was, ends with
\* None in runs and is not listed.
C11_IdempotentSkip ==
    \A i \in DOMAIN dls :
        (~force /\ files[TargetOf(dls[i])] # "absent"
                /\ writes[TargetOf(dls[i])] = 0)
          => /\ dls[i].pc \in {"download", "done"}
             /\ dls[i].g.attempts = 0
             /\ dls[i].posts = <<>>
             /\ dls[i].cancel = "-"
             /\ files[TargetOf(dls[i])] = "old"
             /\ dls[i].pc = "done" => dls[i].run = None
             /\ \A j \in DOMAIN new_targets : new_targets[j].path # dls[i].path

C11_Witness ==
    /\ pc = "gather_listings"
    /\ ~force
    /\ \E i \in DOMAIN dls :
         /\ dls[i].type = "folder"
         /\ files[TargetOf(dls[i])] = "old"
         /\ dls[i].pc = "done"
         /\ dls[i].run = None
         /\ dls[i].g.attempts = 0

\* the output directory holds exactly a.txt and sub.zip, each written once
\* with the bytes the server served, and nothing else was written
OnlyATxtAndSubZip ==
    /\ files[<<"/a.txt", "">>] = "bytes:/a.txt"
    /\ files[<<"/sub", ".zip">>] = "archive:/sub"
    /\ writes[<<"/a.txt", "">>] = 1
    /\ writes[<<"/sub", ".zip">>] = 1
    /\ \A t \in Targets \ {<<"/a.txt", "">>, <<"/sub", ".zip">>} :
          files[t] = "absent" /\ writes[t] = 0

\* C12 as stated: a run that started with an empty output directory and in
\* which no retrieval of a.txt or sub failed ends with exactly a.txt and
\* sub.zip written once each.
C12_EndToEnd ==
    (/\ pc = "returned"
     /\ initial = {}
     /\ history["/a.txt"].run # "failed"
     /\ history["/sub"].run # "failed")
        => OnlyATxtAndSubZip

\* C12 amended: a run that started with an empty output directory, in which
\* the archive export of the root folder itself failed, its listing was
\* returned, and the retrievals of a.txt and of sub succeeded, ends with
\* exactly a.txt and sub.zip written once each.
C12_EndToEndAfterRootDescent ==
    (/\ pc = "returned"
     /\ initial = {}
     /\ history["/"].run = "failed"
     /\ history["/"].listed = 1
     /\ history["/a.txt"].run = "ok"
     /\ history["/sub"].run = "ok")
        => OnlyATxtAndSubZip

C12_Witness ==
    /\ pc = "returned"
    /\ initial = {}
    /\ history["/"].run = "failed"
    /\ history["/a.txt"].run = "ok"
    /\ history["/sub"].run = "ok"
    /\ OnlyATxtAndSubZip

\* C13: with a chunking of zero or less Scraper.get never gets as far as
\* gathering a batch.
C13_InvalidWidthRejected ==
    chunking <= 0 => pc \notin {"gather", "gather_listings"}

\* downloads, exports and listings that have been started and have no result
InFlight ==
    Cardinality({i \in DOMAIN dls : dls[i].run = "-"})
      + Cardinality({j \in DOMAIN new_targets : new_targets[j].run = "-"})

\* C14: at most `chunking` downloads, exports and listings are in flight,
\* whatever they are waiting for, and a batch holds as many entries as
\* chunking allows of what targets held when it was drawn.
C14_ConcurrencyBudget ==
    /\ InFlight <= chunking
    /\ pc = "gather" =>
          Len(current) = (IF chunking < Len(targets) + Len(current)
                            THEN chunking
                            ELSE Len(targets) + Len(current))

C14_Witness ==
    /\ chunking = 2
    /\ InFlight = 2
    /\ \E i \in DOMAIN dls : dls[i].g.st = "run" /\ dls[i].g.attempts >= 1
    /\ \E i \in DOMAIN dls :
          dls[i].pc = "check_zip_status" /\ dls[i].polls = "partial"

\* C15: an export polls and fetches only with the token its initiation
\* returned and before its cancel POST; it fetches the archive only after a
\* poll reported zipped = total; once the cancel POST is issued it makes no
\* further request.
C15_ExportProtocolOrder ==
    /\ [](\A i \in DOMAIN dls :
            /\ dls[i].pc \in {"check_zip_status", "get_zip"}
                 => /\ dls[i].requests_status = "s200"
                    /\ dls[i].zip_token = ZipToken(dls[i].path)
                    /\ dls[i].posts = <<>>
            /\ (dls[i].pc = "get_zip" \/ dls[i].content \in
                   {"archive:/", "archive:/sub", "archive:/sub/c2"})
                 => dls[i].polls = "complete"
            /\ dls[i].polls # "-" => dls[i].requests_status = "s200"
            /\ dls[i].posts # <<>> => dls[i].pc \in {"io_write", "done"})
    /\ [][\A i \in DOMAIN dls :
            (i \in DOMAIN dls' /\ dls[i].posts # <<>> /\ dls'[i].posts # <<>>)
               => /\ dls'[i].g = dls[i].g
                  /\ dls'[i].polls = dls[i].polls
                  /\ dls'[i].posts = dls[i].posts]_vars

C15_Witness ==
    \E i \in DOMAIN dls :
        /\ dls[i].pc = "io_write"
        /\ dls[i].polls = "complete"
        /\ dls[i].content = "archive:/sub"
        /\ dls[i].posts = <<"token:/sub">>
        /\ dls[i].cancel = "sent"

\* Scraper.get has returned or has been left by an exception
Ended == pc \in {"returned", "TypeError"}

\* export i is in its polling loop
Polling(i) == i \in DOMAIN dls /\ dls[i].pc = "check_zip_status"

\* C16: with a chunking of at least 1, and no export left in its polling
\* loop forever, Scraper.get eventually ends; targets grows only in the step
\* that appends the listings of the failed folder entries of the batch.
C16_Termination ==
    /\ (chunking >= 1 /\ \A i \in 1..MaxChunk : []<>(~Polling(i))) => <>Ended
    /\ [][Len(targets') > Len(targets) =>
            /\ pc = "gather_listings"
            /\ \E i \in DOMAIN dls : dls[i].type = "folder" /\ dls[i].run \notin {"-", None}
            /\ Len(targets') <= Len(targets) + Len(Concat(new_targets))]_vars

C16_Witness ==
    /\ pc = "returned"
    /\ chunking >= 1
    /\ history["/sub/c2"].dispatched = 1
    /\ history["/sub"].listed = 1

\* C17 as stated: while a write is in progress the batch has passed its
\* barrier and no other coroutine of the batch, writing or not, is in flight.
C17_SingleWriter ==
    \A i \in DOMAIN dls :
        dls[i].pc = "io_write" =>
            /\ pc # "gather"
            /\ \A j \in DOMAIN dls : j # i => dls[j].run # "-"

\* C17 amended: a write is made by the download coroutine of its entry,
\* before the barrier of the batch, to the target of that entry and to
\* nothing else, whatever the other coroutines of the batch are doing; when
\* the barrier has been passed no write of the batch is in progress.
C17_WritesInsideDownloads ==
    /\ [](pc # "gather" => \A i \in DOMAIN dls : dls[i].pc # "io_write")
    /\ [][(files' # files \/ writes' # writes) =>
            /\ pc = "gather"
            /\ \E i \in DOMAIN dls :
                 /\ dls[i].pc = "io_write"
                 /\ dls'[i].pc = "done"
                 /\ \A t \in Targets :
                      IF t = TargetOf(dls[i])
                        THEN files'[t] = dls[i].content /\ writes'[t] = writes[t] + 1
                        ELSE files'[t] = files[t] /\ writes'[t] = writes[t]
                 /\ \A j \in DOMAIN dls : j # i => dls'[j] = dls[j]]_vars

C17_Witness ==
    /\ pc = "gather"
    /\ Len(dls) = 2
    /\ dls[1].pc = "io_write"
    /\ dls[2].pc = "io_write"

\* C18: outside the gathering of a batch (between two batches and when the
\* run has ended) every export of the last batch that was issued a token
\* has issued its cancel POST for it.
C18_NoTokenOutlivesBatch ==
    pc # "gather" =>
        \A i \in DOMAIN dls :
            (dls[i].requests_status = "s200" \/ dls[i].zip_token # None)
                => dls[i].posts = <<ZipToken(dls[i].path)>>

C18_Witness ==
    /\ pc = "while"
    /\ \E i \in DOMAIN dls :
         /\ dls[i].zip_token = "token:/sub"
         /\ dls[i].run = "UnboundLocalError"
         /\ dls[i].posts = <<"token:/sub">>

\* paths of the children the server lists for p, and of everything below
ChildPaths(p) == {Children(p)[k].path : k \in 1..Len(Children(p))}

RECURSIVE Descendants(_)
Descendants(p) == ChildPaths(p) \cup UNION {Descendants(c) : c \in ChildPaths(p)}

InTargets(p) == \E k \in 1..Len(targets) : targets[k].path = p

\* C19: no path is dispatched or listed more than once; an entry waiting in
\* targets has not been dispatched before (so a failed entry is never put
\* back); a folder whose download() ended without an exception is never
\* listed, and nothing below it is ever queued or dispatched.
C19_DispatchedOnce ==
    \A p \in Paths :
        /\ history[p].dispatched <= 1
        /\ history[p].listed <= 1
        /\ InTargets(p) => history[p].dispatched = 0
        /\ Cardinality({k \in 1..Len(targets) : targets[k].path = p}) <= 1
        /\ (history[p].run = "ok" /\ p \in {"/", "/sub", "/sub/c2"})
              => /\ history[p].listed = 0
                 /\ \A q \in Descendants(p) :
                       history[q].dispatched = 0 /\ ~InTargets(q)

C19_Witness ==
    /\ pc = "returned"
    /\ history["/"].run = "failed"
    /\ history["/"].listed = 1
    /\ history["/sub"].run = "ok"
    /\ history["/a.txt"].run = "failed"
    /\ history["/sub/c1"].dispatched = 0

\* C20: an export that fetched its archive and whose cancel POST raised has
\* failed: nothing is written for it (its target is as it was before the
\* run), and once the batch is gathered the folder is listed.
C20_FailedReleaseFailsExport ==
    \A i \in DOMAIN dls :
        (/\ dls[i].type = "folder"
         /\ dls[i].content # None
         /\ dls[i].cancel = "ConnectionError")
          => /\ dls[i].pc = "done"
             /\ dls[i].run = "ConnectionError"
             /\ writes[<<dls[i].path, ".zip">>] = 0
             /\ files[<<dls[i].path, ".zip">>]
                   = (IF <<dls[i].path, ".zip">> \in initial THEN "old" ELSE "absent")
             /\ pc # "gather" =>
                   /\ history[dls[i].path].run = "failed"
                   /\ history[dls[i].path].listed = 1
                   /\ pc = "gather_listings" =>
                         \E j \in DOMAIN new_targets :
                            new_targets[j].path = dls[i].path

C20_Witness ==
    /\ pc = "while"
    /\ Len(dls) = 1
    /\ dls[1].path = "/sub"
    /\ dls[1].polls = "complete"
    /\ dls[1].content = "archive:/sub"
    /\ dls[1].cancel = "ConnectionError"
    /\ new_targets[1].run = "list"
    /\ InTargets("/sub/c1") /\ InTargets("/sub/c2")

====
